---- MODULE Spec2Model ----
(***************************************************************************)
(* Model of botlib: the controller tree of stories.py and the Telegram     *)
(* adapter of tg.py.                                                        *)
(*                                                                          *)
(* Three specifications share the module.  SpecChain concatenates a set of  *)
(* OutMessage objects with +.  SpecTree drives a set of                     *)
(* controllers through show_child, close and process_event.  Spec drives    *)
(* TelegramReal's two update handlers as asyncio tasks, one per update,     *)
(* that interleave at their await points; the code between two awaits of a  *)
(* task runs without interruption.                                          *)
(*                                                                          *)
(* Python values: None of a controller reference is 0, None of a string is  *)
(* the string "None", None of a message id is 0 (ids start at 1).           *)
(***************************************************************************)
EXTENDS Integers, Sequences, FiniteSets, TLC

VARIABLES
    parent,     \* stories.py Controller.parent of every controller
    child,      \* stories.py Controller.child of every controller
    result,     \* stories.py YesNoController.result ("None", TRUE as "True", FALSE as "False")
    next,       \* stories.py OutMessage.next of every OutMessage object
    added,      \* the last OutMessage.__add__ call and what it did
    last,       \* the last call made on the tree and what it did
    calls,      \* how many calls have been made on the tree
    updates,    \* tg.py: the updates the transport has delivered, in order
    pc,         \* tg.py: where the handler task of every update stands
    replies,    \* tg.py: the local `replies` of every handler task
    sent,       \* tg.py: how many of `replies` _send_messages has gone through
    exc,        \* tg.py: the exception a handler task ended with
    log,        \* tg.py: the transport calls of every handler task, in order
    applied     \* tg.py: the on_message calls, in the order they were made

chainVars == <<next, added>>
treeVars == <<parent, child, result, last, calls>>
tgVars == <<updates, pc, replies, sent, exc, log, applied>>
vars ==
    <<next, added, parent, child, result, last, calls, updates, pc, replies,
      sent, exc, log, applied>>

Range(s) == {s[i] : i \in DOMAIN s}

(***************************************************************************)
(* stories.py: OutMessage chains                                           *)
(***************************************************************************)

\* Number of OutMessage objects of the chain model.
NumNodes == 4

Nodes == 1..NumNodes

\* Optional["OutMessage"] = None; also what a call that never returns gives.
NoNode == 0

\* The while loop of OutMessage.__add__ (lines 58-60) from insert_after,
\* under the next links nx: the node whose next is None, or NoNode when the
\* loop comes back to a node it has been at and so never ends.
RECURSIVE insert_after(_, _, _)
insert_after(nx, n, seen) ==
    IF nx[n] = NoNode THEN n
    ELSE IF nx[n] \in seen THEN NoNode
    ELSE insert_after(nx, nx[n], seen \cup {nx[n]})

\* __add__ with `insert_after = self` at every turn of the loop: other is
\* linked behind the head.
add_behind_head(nx, self, other) ==
    [next |-> [nx EXCEPT ![self] = other], ret |-> self]

\* OutMessage.__add__ under the next links nx: the links afterwards and the
\* node returned (NoNode when the call never returns).
add(nx, self, other) ==
    LET tail == insert_after(nx, self, {self}) IN
    IF tail = NoNode
    THEN [next |-> nx, ret |-> NoNode]
    ELSE [next |-> [nx EXCEPT ![tail] = other], ret |-> self]

\* The nodes visited by following next from node n under nx, in order, up
\* to the end of the chain or to the first node met again.
RECURSIVE visit(_, _, _)
visit(nx, n, sofar) ==
    IF n = NoNode \/ n \in Range(sofar) THEN sofar
    ELSE visit(nx, nx[n], Append(sofar, n))

flatten(nx, n) == visit(nx, n, << >>)

\* The record of an __add__ call.
NoAdd == [self |-> NoNode, other |-> NoNode, ret |-> NoNode, called |-> FALSE]

\* No OutMessage has been concatenated.
ChainIdle ==
    /\ next = [n \in Nodes |-> NoNode]
    /\ added = NoAdd

(***************************************************************************)
(* stories.py: the controller tree                                         *)
(***************************************************************************)

\* Number of controllers of the tree model.
NumControllers == 3

\* Length of the call sequences the tree is driven through.
MaxCalls == 3

Ctrl == 1..NumControllers

\* Optional["Controller"] = None
NoCtrl == 0

\* The controller built as YesNoController(parent, "Confirm?"); the others
\* are plain Controller objects.
YesNo == 2

IsYesNo(c) == c = YesNo

\* Controller.text: controller 1 keeps text=None, the YesNoController holds
\* its question, the others a text of their own.
text(c) ==
    IF c = 1 THEN "None"
    ELSE IF IsYesNo(c) THEN "Confirm?"
    ELSE IF c = 3 THEN "menu"
    ELSE "more"

\* str.lower() on the button texts in use.
lower(t) == IF t = "Yes" THEN "yes" ELSE IF t = "No" THEN "no" ELSE t

\* Button.__init__: the action, or the lower-cased text when none is given.
Button(t, action) ==
    [text |-> t,
     action |-> IF action # "None" /\ action # "" THEN action ELSE lower(t)]

\* Controller.buttons
buttons(c) ==
    IF IsYesNo(c) THEN << <<Button("Yes", "yes"), Button("No", "no")>> >>
    ELSE << >>

\* OutMessage(text, buttons, parse_mode=..., buttons_below=...)
OutMessage(t, b, pm, bb) ==
    [text |-> t, buttons |-> b, next |-> "None", parse_mode |-> pm,
     buttons_below |-> bb, edit_the_last |-> FALSE]

\* The else branch of Controller.render: the controller's own message.
OwnMessage(c) ==
    OutMessage(IF text(c) # "None" /\ text(c) # "" THEN text(c) ELSE "",
               buttons(c), "None", "None")

\* What a call gives back: the value it returns or the error it raises, and
\* the controllers render() ran on, in call order.
Returned(m, trace) == [raised |-> "None", ret |-> <<m>>, rendered |-> trace]
Raised(e, trace) == [raised |-> e, ret |-> << >>, rendered |-> trace]

\* Controller.render on the last controller of trace, under the child links
\* ch.  A child that is already on the delegation chain is delegated to
\* again and again: the recursion has no bottom and Python ends it with
\* RecursionError.
RECURSIVE renderFrom(_, _)
renderFrom(ch, trace) ==
    LET self == trace[Len(trace)] IN
    IF ch[self] # NoCtrl
    THEN IF ch[self] \in Range(trace)
         THEN Raised("RecursionError", Append(trace, ch[self]))
         ELSE renderFrom(ch, Append(trace, ch[self]))
    ELSE Returned(OwnMessage(self), trace)

render(ch, self) == renderFrom(ch, <<self>>)

\* Controller.get_current_active under the child links ch: the controller
\* it returns, or NoCtrl when the recursion has no bottom (RecursionError).
RECURSIVE activeFrom(_, _, _)
activeFrom(ch, self, seen) ==
    IF ch[self] # NoCtrl
    THEN IF ch[self] \in seen \cup {self}
         THEN NoCtrl
         ELSE activeFrom(ch, ch[self], seen \cup {self})
    ELSE self

get_current_active(ch, self) == activeFrom(ch, self, {})

\* Controller.on_child_closed: the default hook renders the parent.
on_child_closed(ch, self, c) == render(ch, self)

\* The record of a call: the operation, its receiver, its argument (a
\* controller or an event), the receiver's parent when the call began, the
\* on_child_closed calls it made (<<parent, child, result of the child as
\* the hook sees it>>), and its outcome.
Call(op, self, arg, e, par, hooks, out) ==
    [op |-> op, self |-> self, arg |-> arg, event |-> e, parent |-> par,
     hooks |-> hooks, raised |-> out.raised, ret |-> out.ret,
     rendered |-> out.rendered]

NoEvent == [kind |-> "None", name |-> "None"]

NoCall ==
    Call("init", NoCtrl, NoCtrl, NoEvent, NoCtrl, << >>, Raised("None", << >>))

\* Controller.show_child
show_child(self, c) ==
    LET ch == [child EXCEPT ![self] = c] IN
    /\ parent' = [parent EXCEPT ![c] = self]
    /\ child' = ch
    /\ last' = Call("show_child", self, c, NoEvent, parent[self], << >>,
                  render(ch, c))
    /\ UNCHANGED result

\* Controller.close without the test of lines 99-100: a controller without
\* a parent is rendered instead.
closeOf_unguarded(self, res) ==
    IF parent[self] = NoCtrl
    THEN [child |-> [child EXCEPT ![self] = NoCtrl], hooks |-> << >>,
          out |-> render([child EXCEPT ![self] = NoCtrl], self)]
    ELSE LET ch == [child EXCEPT ![parent[self]] = NoCtrl] IN
         [child |-> ch, hooks |-> << <<parent[self], self, res>> >>,
          out |-> on_child_closed(ch, parent[self], self)]

\* The body of Controller.close for a controller whose result is res when
\* it closes: the new child links, the hook calls and the outcome.
closeOf(self, res) ==
    IF parent[self] = NoCtrl
    THEN [child |-> child, hooks |-> << >>,
          out |-> Raised("ValueError", << >>)]
    ELSE LET ch == [child EXCEPT ![parent[self]] = NoCtrl] IN
         [child |-> ch, hooks |-> << <<parent[self], self, res>> >>,
          out |-> on_child_closed(ch, parent[self], self)]

\* Controller.close
close(self) ==
    LET c == closeOf(self, result[self]) IN
    /\ child' = c.child
    /\ last' = Call("close", self, NoCtrl, NoEvent, parent[self], c.hooks,
                  c.out)
    /\ UNCHANGED <<parent, result>>

\* The events a controller is sent.
Events ==
    {[kind |-> "ButtonAction", name |-> n] : n \in {"yes", "no", "back"}}
    \cup {[kind |-> "Message", name |-> "None"],
          [kind |-> "Command", name |-> "start"]}

\* YesNoController.process_event without the test of line 134: every
\* ButtonAction is taken for an answer.
process_event_any_button(self, e) ==
    IF IsYesNo(self)
    THEN IF e.kind = "ButtonAction"
         THEN LET res == IF e.name = "yes" THEN "True" ELSE "False"
                  c == closeOf(self, res) IN
              /\ result' = [result EXCEPT ![self] = res]
              /\ child' = c.child
              /\ last' = Call("process_event", self, NoCtrl, e, parent[self],
                              c.hooks, c.out)
              /\ UNCHANGED parent
         ELSE /\ last' = Call("process_event", self, NoCtrl, e, parent[self],
                              << >>, Raised("ValueError", << >>))
              /\ UNCHANGED <<parent, child, result>>
    ELSE /\ last' = Call("process_event", self, NoCtrl, e, parent[self], << >>,
                         render(child, self))
         /\ UNCHANGED <<parent, child, result>>

\* Controller.process_event and YesNoController.process_event
process_event(self, e) ==
    IF IsYesNo(self)
    THEN IF e.kind = "ButtonAction" /\ e.name \in {"yes", "no"}
         THEN LET res == IF e.name = "yes" THEN "True" ELSE "False"
                  c == closeOf(self, res) IN
              /\ result' = [result EXCEPT ![self] = res]
              /\ child' = c.child
              /\ last' = Call("process_event", self, NoCtrl, e, parent[self],
                              c.hooks, c.out)
              /\ UNCHANGED parent
         ELSE /\ last' = Call("process_event", self, NoCtrl, e, parent[self],
                              << >>, Raised("ValueError", << >>))
              /\ UNCHANGED <<parent, child, result>>
    ELSE /\ last' = Call("process_event", self, NoCtrl, e, parent[self], << >>,
                         render(child, self))
         /\ UNCHANGED <<parent, child, result>>

\* The adapter's variables while the tree is driven on its own.
TgIdle ==
    /\ updates = << >>
    /\ pc = << >>
    /\ replies = << >>
    /\ sent = << >>
    /\ exc = << >>
    /\ log = << >>
    /\ applied = << >>

\* Controller() has no parent and no child; YesNoController.__init__ takes
\* its parent, an existing controller, and does not touch that parent.
InitTree ==
    /\ \E p \in Ctrl \ {YesNo} :
          parent = [c \in Ctrl |-> IF IsYesNo(c) THEN p ELSE NoCtrl]
    /\ child = [c \in Ctrl |-> NoCtrl]
    /\ result = [c \in Ctrl |-> "None"]
    /\ last = NoCall
    /\ calls = 0
    /\ TgIdle
    /\ ChainIdle

\* One more call on the tree, while the call sequence is shorter than MaxCalls.
Called ==
    /\ calls < MaxCalls
    /\ calls' = calls + 1
    /\ UNCHANGED <<tgVars, chainVars>>

ShowChild == \E p \in Ctrl, c \in Ctrl : show_child(p, c) /\ Called
Close == \E c \in Ctrl : close(c) /\ Called
ProcessEvent == \E c \in Ctrl, e \in Events : process_event(c, e) /\ Called

NextTree == ShowChild \/ Close \/ ProcessEvent

SpecTree == InitTree /\ [][NextTree]_vars

(***************************************************************************)
(* tg.py: the Telegram adapter                                             *)
(***************************************************************************)

\* Number of updates the transport delivers in a run.
MaxUpdates == 2

\* Optional[MessageId] = None; message ids count from 1.
NoId == 0

\* A Python str is the sequence of its lines; "" has one empty line.
Str(line) == <<line>>
EmptyStr == <<"">>

\* "\n".join(lines)
RECURSIVE join(_)
join(lines) ==
    IF lines = << >> THEN EmptyStr
    ELSE IF Len(lines) = 1 THEN lines[1]
    ELSE lines[1] \o join(Tail(lines))

\* An Optional list: None, or the list.
NoList == [is_none |-> TRUE]
List(l) == [is_none |-> FALSE, list |-> l]

\* telegram.Update as the handlers read it.  effective_chat is NoId when
\* the update has no chat; username is "None" when the chat has none;
\* callback_query says whether the update carries a callback query;
\* message is the update's message for a text update and the query's
\* message for a callback query: "None", or present with message_text
\* ("None" when the message has no text).
Update(kind, chat, username, query, message, mtext, data) ==
    [kind |-> kind, effective_chat |-> chat, username |-> username,
     callback_query |-> query, message |-> message, message_text |-> mtext,
     data |-> data]

\* The text updates the transport delivers: complete ones of two users, and
\* one for every field _default_handler requires being absent.
TextUpdates ==
    {Update("text", 1, "ann", FALSE, "Message", Str("hello"), "None"),
     Update("text", 2, "bob", FALSE, "Message", Str("hello"), "None"),
     Update("text", NoId, "None", FALSE, "Message", Str("hello"), "None"),
     Update("text", 1, "None", FALSE, "Message", Str("hello"), "None"),
     Update("text", 1, "ann", FALSE, "None", <<"None">>, "None"),
     Update("text", 1, "ann", FALSE, "Message", <<"None">>, "None")}

\* The callback-query updates: complete ones (one of a message with text,
\* one of a message without text whose query carries no data either, as
\* CallbackQuery.data is optional, and one without a message), one without
\* a chat, one whose chat has no username, and an update without a callback
\* query.
CallbackUpdates ==
    {Update("callback", 1, "ann", TRUE, "Message", Str("Confirm?"), "no"),
     Update("callback", 1, "ann", TRUE, "Message", <<"None">>, "None"),
     Update("callback", 1, "ann", TRUE, "None", <<"None">>, "no"),
     Update("callback", NoId, "None", TRUE, "Message", Str("Confirm?"), "no"),
     Update("callback", 1, "None", TRUE, "Message", Str("Confirm?"), "no"),
     Update("callback", 1, "ann", FALSE, "None", <<"None">>, "None")}

\* TgIncomingMsg
TgIncomingMsg(message_id, user_id, user_name, t, keyboard_callback) ==
    [message_id |-> message_id, user_id |-> user_id, user_name |-> user_name,
     text |-> t, keyboard_callback |-> keyboard_callback]

\* TgOutgoingMsg
TgOutgoingMsg(user_id, t, inline, below, edit_id) ==
    [user_id |-> user_id, user_name |-> "None", text |-> t,
     inline_keyboard |-> inline, keyboard_below |-> below,
     parse_mode |-> "None", edit_message_with_id |-> edit_id]

YesNoKeyboard ==
    << <<[text |-> "Yes", callback_data |-> "yes"],
         [text |-> "No", callback_data |-> "no"]>> >>

\* The id an edit of the turn of incoming message m targets: the message
\* that triggered the turn, or message 1 when the update carried none.
EditTarget(m) == IF m.message_id # NoId THEN m.message_id ELSE 1

\* The reply lists the on_message callback answers message m with.
ReplyLists(m) ==
    LET send == TgOutgoingMsg(m.user_id, Str("menu"), NoList, NoList, NoId)
        both == TgOutgoingMsg(m.user_id, Str("Confirm?"), List(YesNoKeyboard),
                              List(<< <<"Cancel">> >>), NoId)
        edit == TgOutgoingMsg(m.user_id, Str("No"), NoList, NoList,
                              EditTarget(m))
        edit2 == TgOutgoingMsg(m.user_id, Str("closed"), NoList, NoList,
                               EditTarget(m))
    IN  {<< >>, <<both>>, <<edit, send>>, <<edit, edit2>>}

\* What a call of the on_message callback does: it returns a reply list,
\* raises ValueError (a dialog error), or raises another error.
OnMessage(m) ==
    {[raised |-> "None", replies |-> l] : l \in ReplyLists(m)}
    \cup {[raised |-> e, replies |-> << >>] : e \in {"ValueError", "Error"}}

\* The local variable `replies`: unbound until on_message has returned.
Unbound == [bound |-> FALSE, list |-> << >>]
Bound(l) == [bound |-> TRUE, list |-> l]

\* reply_markup = None
NoMarkup == [type |-> "None", keyboard |-> << >>]

\* An entry of a task's transport log: a call being started, or returning.
TransportCall(op, chat_id, message_id, t, parse_mode, reply_markup) ==
    [ev |-> "call", op |-> op, chat_id |-> chat_id, message_id |-> message_id,
     text |-> t, parse_mode |-> parse_mode, reply_markup |-> reply_markup]
TransportReturn(op) ==
    [ev |-> "return", op |-> op, chat_id |-> NoId, message_id |-> NoId,
     text |-> EmptyStr, parse_mode |-> "None", reply_markup |-> NoMarkup]

\* The reply_markup _send_message builds: the kind of markup and the rows
\* of buttons it holds.
reply_markup(m) ==
    IF ~m.keyboard_below.is_none
    THEN IF Len(m.keyboard_below.list) > 0
         THEN [type |-> "ReplyKeyboardMarkup", keyboard |-> m.keyboard_below.list]
         ELSE [type |-> "ReplyKeyboardRemove", keyboard |-> << >>]
    ELSE IF ~m.inline_keyboard.is_none /\ Len(m.inline_keyboard.list) > 0
         THEN [type |-> "InlineKeyboardMarkup",
               keyboard |-> m.inline_keyboard.list]
         ELSE NoMarkup

\* _send_message without its edit branch: every message is sent as new.
_send_message_no_edit(m) ==
    TransportCall("sendMessage", m.user_id, NoId, m.text, m.parse_mode,
                  reply_markup(m))

\* TelegramReal._send_message up to `await res`: the transport call it makes.
_send_message(m) ==
    IF m.edit_message_with_id # NoId
    THEN TransportCall("editMessageText", m.user_id, m.edit_message_with_id,
                       m.text, m.parse_mode, NoMarkup)
    ELSE TransportCall("sendMessage", m.user_id, NoId, m.text, m.parse_mode,
                       reply_markup(m))

Tasks == DOMAIN updates

\* TelegramReal._send_messages from message number i of `messages` on, in
\* a task whose log so far is l: the call for that message is started and
\* the task suspends in it, or the loop is over and the handler returns.
_send_messages(messages, i, l) ==
    IF i <= Len(messages)
    THEN [pc |-> "send", log |-> Append(l, _send_message(messages[i]))]
    ELSE [pc |-> "return", log |-> l]

\* The guard of _default_handler (lines 113-118): the update is invalid.
default_invalid(u) ==
    \/ u.effective_chat = NoId
    \/ u.username = "None"
    \/ u.message = "None"
    \/ u.message_text = <<"None">>

\* The guard of line 146 without its username test.
callback_invalid_chat_only(u) == u.effective_chat = NoId

\* The guard of _callback_query_handler (line 146): the update is invalid.
callback_invalid(u) ==
    \/ u.effective_chat = NoId
    \/ u.username = "None"

\* Line 144 left out: no acknowledgment is started.
answer_missing == << >>

\* `await query.answer()` (line 144): the call it starts.
answer ==
    <<TransportCall("answerCallbackQuery", NoId, NoId, EmptyStr, "None",
                    NoMarkup)>>

\* The except clause of _default_handler (lines 129-130): the call of
\* `await update.message.reply_text(...)` it starts.
default_except(u, t) ==
    [pc |-> "reply_text",
     log |-> <<TransportCall("reply_text", u.effective_chat, t,
                             Str("Error: "), "None", NoMarkup)>>]

\* The except clause of _default_handler in place of lines 160-161: the
\* error is reported to the user with reply_text.
callback_except_replies(l) ==
    [pc |-> "reply_text",
     log |-> Append(l, TransportCall("reply_text", NoId, NoId,
                                     Str("Error: "), "None", NoMarkup))]

\* The except clause of _callback_query_handler (lines 160-161): the error
\* is logged and the handler ends.
callback_except(l) == [pc |-> "return", log |-> l]

\* A task is created for the next update the transport delivers; asyncio
\* runs it up to its first await before the task of any later update.
Deliver(u) ==
    /\ Len(updates) < MaxUpdates
    /\ updates' = Append(updates, u)
    /\ sent' = Append(sent, 0)
    /\ UNCHANGED <<treeVars, chainVars>>

\* The handler task goes on to where `to` says.
Goto(t, to) ==
    /\ pc' = [pc EXCEPT ![t] = to.pc]
    /\ log' = [log EXCEPT ![t] = to.log]

\* The handler task of a new update runs to where `to` says.
Start(to) ==
    /\ pc' = Append(pc, to.pc)
    /\ log' = Append(log, to.log)

\* The on_message call of task t with `message`, which did r: the error
\* it raised, or the list it returned, as returned.
Applied(t, message, r) ==
    applied' = Append(applied, [task |-> t, message |-> message,
                                raised |-> r.raised, returned |-> r.replies])

\* TelegramReal._default_handler, from its call to its first await or its
\* end.
_default_handler ==
    \E u \in TextUpdates :
    LET t == Len(updates) + 1 IN
    /\ Deliver(u)
    /\ IF default_invalid(u)
       THEN /\ Start([pc |-> "return", log |-> << >>])
            /\ replies' = Append(replies, Unbound)
            /\ exc' = Append(exc, "None")
            /\ UNCHANGED applied
       ELSE LET message == TgIncomingMsg(t, u.effective_chat, u.username,
                                         u.message_text, "None") IN
            \E r \in OnMessage(message) :
            /\ Applied(t, message, r)
            /\ IF r.raised = "None"
               THEN /\ replies' = Append(replies, Bound(r.replies))
                    /\ exc' = Append(exc, "None")
                    /\ Start(_send_messages(r.replies, 1, << >>))
               ELSE IF r.raised = "ValueError"
               THEN /\ replies' = Append(replies, Unbound)
                    /\ exc' = Append(exc, "None")
                    /\ Start(default_except(u, t))
               ELSE /\ replies' = Append(replies, Unbound)
                    /\ exc' = Append(exc, r.raised)
                    /\ Start([pc |-> "raise", log |-> << >>])

\* TelegramReal._default_handler after `await update.message.reply_text`:
\* line 131 reads `replies`, which the except clause never bound.
_default_handler_after_reply ==
    \E t \in Tasks :
    LET l == Append(log[t], TransportReturn("reply_text")) IN
    /\ pc[t] = "reply_text"
    /\ IF replies[t].bound
       THEN /\ Goto(t, _send_messages(replies[t].list, 1, l))
            /\ UNCHANGED exc
       ELSE /\ Goto(t, [pc |-> "raise", log |-> l])
            /\ exc' = [exc EXCEPT ![t] = "UnboundLocalError"]
    /\ UNCHANGED <<updates, replies, sent, applied>>
    /\ UNCHANGED <<treeVars, chainVars>>

\* TelegramReal._callback_query_handler, from its call to
\* `await query.answer()` or its end.
_callback_query_handler ==
    \E u \in CallbackUpdates :
    /\ Deliver(u)
    /\ replies' = Append(replies, Unbound)
    /\ exc' = Append(exc, "None")
    /\ UNCHANGED applied
    /\ IF ~u.callback_query
       THEN Start([pc |-> "return", log |-> << >>])
       ELSE Start([pc |-> "answer", log |-> answer])

\* The text building of _callback_query_handler (lines 164-179): the first
\* message of replies that is an edit gets the text of the query's message
\* and an empty line put before its own text, and Markdown as parse mode.
EditIndexes(l) == {i \in DOMAIN l : l[i].edit_message_with_id # NoId}

BuildEditText(u, l) ==
    IF EditIndexes(l) = {} THEN l
    ELSE LET i == CHOOSE j \in EditIndexes(l) :
                      \A k \in EditIndexes(l) : j <= k
             lines == IF /\ u.callback_query
                         /\ u.message # "None"
                         /\ u.message_text # <<"None">>
                      THEN <<u.message_text, EmptyStr>>
                      ELSE << >>
         IN  [l EXCEPT ![i] = [@ EXCEPT
                  !.text = join(Append(lines, l[i].text)),
                  !.parse_mode = "Markdown"]]

\* TelegramReal._callback_query_handler after `await query.answer()`, up to
\* its next await or its end.
_callback_query_handler_answered ==
    \E t \in Tasks :
    LET u == updates[t]
        l == Append(log[t], TransportReturn("answerCallbackQuery")) IN
    /\ pc[t] = "answer"
    /\ UNCHANGED <<updates, sent>>
    /\ UNCHANGED <<treeVars, chainVars>>
    /\ IF callback_invalid(u)
       THEN /\ Goto(t, [pc |-> "return", log |-> l])
            /\ UNCHANGED <<replies, exc, applied>>
       ELSE LET message == TgIncomingMsg(
                    IF u.message # "None" THEN t ELSE NoId,
                    u.effective_chat, u.username, EmptyStr, u.data) IN
            \E r \in OnMessage(message) :
            /\ Applied(t, message, r)
            /\ IF r.raised = "None"
               THEN LET built == BuildEditText(u, r.replies) IN
                    /\ replies' = [replies EXCEPT ![t] = Bound(built)]
                    /\ Goto(t, _send_messages(built, 1, l))
                    /\ UNCHANGED exc
               ELSE IF r.raised = "ValueError"
               THEN /\ Goto(t, callback_except(l))
                    /\ UNCHANGED <<replies, exc>>
               ELSE /\ Goto(t, [pc |-> "raise", log |-> l])
                    /\ exc' = [exc EXCEPT ![t] = r.raised]
                    /\ UNCHANGED replies

\* TelegramReal._send_message after `await res`, and the loop of
\* _send_messages going on to the next message.
_send_message_returned ==
    \E t \in Tasks :
    LET i == sent[t] + 1
        op == _send_message(replies[t].list[i]).op IN
    /\ pc[t] = "send"
    /\ sent' = [sent EXCEPT ![t] = i]
    /\ Goto(t, _send_messages(replies[t].list, i + 1,
                              Append(log[t], TransportReturn(op))))
    /\ UNCHANGED <<updates, replies, exc, applied>>
    /\ UNCHANGED <<treeVars, chainVars>>

\* The tree's variables while the adapter is driven on its own.
TreeIdle ==
    /\ parent = [c \in Ctrl |-> NoCtrl]
    /\ child = [c \in Ctrl |-> NoCtrl]
    /\ result = [c \in Ctrl |-> "None"]
    /\ last = NoCall
    /\ calls = 0

\* TelegramReal.__init__: the handlers are registered, no update has come.
Init ==
    /\ updates = << >>
    /\ pc = << >>
    /\ replies = << >>
    /\ sent = << >>
    /\ exc = << >>
    /\ log = << >>
    /\ applied = << >>
    /\ TreeIdle
    /\ ChainIdle

Next ==
    \/ _default_handler
    \/ _default_handler_after_reply
    \/ _callback_query_handler
    \/ _callback_query_handler_answered
    \/ _send_message_returned

Spec == Init /\ [][Next]_vars

(***************************************************************************)
(* stories.py: OutMessage chains, driven on their own                      *)
(***************************************************************************)

\* OutMessage(...) objects, each with next=None.
InitChain ==
    /\ ChainIdle
    /\ TreeIdle
    /\ TgIdle

\* self + other, for any two OutMessage objects.  A call that never
\* returns leaves its caller in it: no call follows.
__add__ ==
    \E self \in Nodes, other \in Nodes :
    LET r == add(next, self, other) IN
    /\ ~(added.called /\ added.ret = NoNode)
    /\ next' = r.next
    /\ added' = [self |-> self, other |-> other, ret |-> r.ret,
                 called |-> TRUE]
    /\ UNCHANGED <<treeVars, tgVars>>

NextChain == __add__

SpecChain == InitChain /\ [][NextChain]_vars

(***************************************************************************)
(* Properties of the adapter, checked under Spec                           *)
(***************************************************************************)

\* The entries of task t's log that start a call of one of ops.
CallsOf(t, ops) ==
    LET IsCall(e) == e.ev = "call" /\ e.op \in ops IN
    SelectSeq(log[t], IsCall)

\* The transport calls that show the user something: a new message (a
\* reply_text is a sendMessage to the update's chat) or an edit.
OutboundOps == {"sendMessage", "editMessageText", "reply_text"}

\* The calls and returns of _send_messages in task t's log.
SendLog(t) ==
    LET IsSend(e) == e.op \in {"sendMessage", "editMessageText"} IN
    SelectSeq(log[t], IsSend)

\* The handler of task t has ended, by returning or by raising.
Ended(t) == pc[t] \in {"return", "raise"}

\* on_message was called for task t, and did `raised`.
OnMessageDid(t, raised) ==
    \E i \in DOMAIN applied : applied[i].task = t /\ applied[i].raised = raised

OnMessageCalled(t) == \E i \in DOMAIN applied : applied[i].task = t

\* C1: a callback-query update is acknowledged exactly once: from the first
\* step of its handler on, its log holds exactly one answerCallbackQuery
\* call, whether the update is then dropped for its missing chat identity,
\* on_message returns, or on_message raises.
C1_AnsweredExactlyOnce ==
    \A t \in Tasks :
        updates[t].callback_query =>
            Len(CallsOf(t, {"answerCallbackQuery"})) = 1

\* Two callback-query handlers have ended, one that dropped its update for
\* the missing chat identity and one whose on_message raised, and each
\* has acknowledged once.
C1_Witness ==
    \E t1, t2 \in Tasks :
        /\ updates[t1].callback_query /\ updates[t2].callback_query
        /\ Ended(t1) /\ Ended(t2)
        /\ ~OnMessageCalled(t1) /\ updates[t1].effective_chat = NoId
        /\ OnMessageDid(t2, "ValueError")
        /\ Len(CallsOf(t1, {"answerCallbackQuery"})) = 1
        /\ Len(CallsOf(t2, {"answerCallbackQuery"})) = 1

\* C2: the on_message calls of one user are made in the order the transport
\* delivered that user's updates (tasks are numbered in delivery order).
C2_AppliedInDeliveryOrder ==
    \A i, j \in DOMAIN applied :
        (/\ i < j
         /\ applied[i].message.user_id = applied[j].message.user_id)
        => applied[i].task < applied[j].task

\* The op _send_messages is to use for message m.
ExpectedOp(m) ==
    IF m.edit_message_with_id # NoId THEN "editMessageText" ELSE "sendMessage"

\* C3: the send and edit calls of a turn are those of its messages, in list
\* order, one per message, each returned before the next is started: the
\* log of sends is call 1, return 1, call 2, return 2, ..., call k being an
\* editMessageText when message k is an edit and a sendMessage otherwise
\* and carrying message k's text; when the handler has returned, every
\* message has had its call.
C3_SendsInListOrder ==
    \A t \in Tasks :
        LET sl == SendLog(t)
            msgs == replies[t].list IN
        /\ Len(sl) <= 2 * Len(msgs)
        /\ \A k \in DOMAIN sl :
               LET m == msgs[(k + 1) \div 2] IN
               /\ sl[k].ev = (IF k % 2 = 1 THEN "call" ELSE "return")
               /\ sl[k].op = ExpectedOp(m)
               /\ sl[k].ev = "call" =>
                      /\ sl[k].text = m.text
                      /\ sl[k].chat_id = m.user_id
        /\ pc[t] = "return" => Len(sl) = 2 * Len(msgs)

\* A turn of two messages, the first an edit and the second not, has ended
\* with one editMessageText followed by one sendMessage.
C3_Witness ==
    \E t \in Tasks :
        /\ pc[t] = "return"
        /\ Len(replies[t].list) = 2
        /\ replies[t].list[1].edit_message_with_id # NoId
        /\ replies[t].list[2].edit_message_with_id = NoId
        /\ Len(SendLog(t)) = 4
        /\ SendLog(t)[1].op = "editMessageText"
        /\ SendLog(t)[3].op = "sendMessage"

\* C4: when on_message raises ValueError in a callback-query turn, the
\* handler has returned without an exception, the callback was acknowledged
\* (called and returned), and the turn has no sendMessage, editMessageText
\* or reply_text call.
C4_CallbackDialogErrorCaught ==
    \A t \in Tasks :
        (updates[t].kind = "callback" /\ OnMessageDid(t, "ValueError")) =>
            /\ pc[t] = "return"
            /\ exc[t] = "None"
            /\ Len(CallsOf(t, OutboundOps)) = 0
            /\ Len(log[t]) = 2
            /\ log[t][1].ev = "call" /\ log[t][1].op = "answerCallbackQuery"
            /\ log[t][2].ev = "return" /\ log[t][2].op = "answerCallbackQuery"

\* A callback-query turn whose on_message raised ValueError has ended.
C4_Witness ==
    \E t \in Tasks :
        /\ updates[t].kind = "callback"
        /\ OnMessageDid(t, "ValueError")
        /\ pc[t] = "return"
        /\ updates[t].message_text # <<"None">>

\* C5: when on_message raises ValueError in a text turn, the handler never
\* ends with an exception, and no reply list is sent.
C5_TextDialogErrorCaught ==
    \A t \in Tasks :
        (updates[t].kind = "text" /\ OnMessageDid(t, "ValueError")) =>
            /\ pc[t] # "raise"
            /\ exc[t] = "None"
            /\ SendLog(t) = << >>

\* The update of task t lacks a field its handler requires.
LacksRequiredField(t) ==
    LET u == updates[t] IN
    \/ u.effective_chat = NoId
    \/ u.username = "None"
    \/ u.kind = "text" /\ (u.message = "None" \/ u.message_text = <<"None">>)

\* C6: an update that lacks a required field never reaches on_message and
\* has no send, edit or reply call.
C6_InvalidUpdateDropped ==
    \A t \in Tasks :
        LacksRequiredField(t) =>
            /\ ~OnMessageCalled(t)
            /\ Len(CallsOf(t, OutboundOps)) = 0

\* A text update without message text and a callback-query update whose
\* chat has no username have both been handled to the end.
C6_Witness ==
    \E t1, t2 \in Tasks :
        /\ updates[t1].kind = "text" /\ updates[t1].message_text = <<"None">>
        /\ updates[t2].kind = "callback" /\ updates[t2].callback_query
        /\ updates[t2].effective_chat # NoId /\ updates[t2].username = "None"
        /\ pc[t1] = "return" /\ pc[t2] = "return"

(***************************************************************************)
(* Properties of the controller tree, checked under SpecTree               *)
(***************************************************************************)

\* C7: in every reachable state get_current_active() on any controller
\* terminates and returns a controller without a child.
C7_ActiveHasNoChild ==
    \A c \in Ctrl :
        LET a == get_current_active(child, c) IN
        a # NoCtrl /\ child[a] = NoCtrl

\* C8: after close() on a controller c that has a parent, the parent has no
\* child, and render() on the parent returns the parent's own message
\* without running on c.
C8_ClosedChildDetached ==
    (last.op = "close" /\ last.parent # NoCtrl) =>
        LET p == last.parent
            r == render(child, p) IN
        /\ child[p] = NoCtrl
        /\ r.raised = "None"
        /\ r.ret = <<OwnMessage(p)>>
        /\ last.self \notin Range(r.rendered)

\* C9: close() on a controller without a parent raises an error, calls no
\* on_child_closed hook and changes no parent or child link.
C9_CloseOnRootFails ==
    [][(/\ calls' # calls
        /\ last'.op = "close"
        /\ parent[last'.self] = NoCtrl)
       => (/\ last'.raised = "ValueError"
           /\ last'.hooks = << >>
           /\ last'.rendered = << >>
           /\ parent' = parent
           /\ child' = child)]_vars

\* close() was called on a root that had a child, and raised.
C9_Witness ==
    /\ last.op = "close"
    /\ last.parent = NoCtrl
    /\ parent[last.self] = NoCtrl
    /\ child[last.self] # NoCtrl
    /\ last.raised = "ValueError"

\* C10: after p.show_child(c), render() on p and render() on c return the
\* same message, the own message of the active leaf below c, and show_child
\* returned that message.
C10_ShowChildDelegates ==
    last.op = "show_child" =>
        LET rp == render(child, last.self)
            rc == render(child, last.arg)
            leaf == get_current_active(child, last.arg) IN
        /\ rp.raised = "None"
        /\ rc.raised = "None"
        /\ rp.ret = rc.ret
        /\ leaf # NoCtrl
        /\ rc.ret = <<OwnMessage(leaf)>>
        /\ last.raised = "None"
        /\ last.ret = rc.ret

\* The call just made is process_event on the YesNoController with an
\* answer: a ButtonAction named "yes" or "no".
AnswerStep ==
    /\ calls' # calls
    /\ last'.op = "process_event"
    /\ IsYesNo(last'.self)
    /\ last'.event.kind = "ButtonAction"
    /\ last'.event.name \in {"yes", "no"}

\* C11: when the YesNoController is the child of its parent and receives
\* ButtonAction "yes" or "no", its result is (name = "yes"), the one hook
\* call on_child_closed(parent, controller) sees that result, the parent
\* has no child afterwards, and render() ran once, on the parent, and not
\* on the closed controller.
C11_AnswerClosesYesNo ==
    [][(/\ AnswerStep
        /\ parent[last'.self] # NoCtrl
        /\ child[parent[last'.self]] = last'.self)
       => LET y == last'.self
              p == parent[y]
              res == IF last'.event.name = "yes" THEN "True" ELSE "False" IN
          /\ result'[y] = res
          /\ last'.hooks = << <<p, y, res>> >>
          /\ last'.raised = "None"
          /\ child'[p] = NoCtrl
          /\ last'.rendered = <<p>>
          /\ y \notin Range(last'.rendered)]_vars

\* The call just made is show_child.
ShowChildStep == calls' # calls /\ last'.op = "show_child"

\* C17: p.show_child(c) makes p the parent of c and c the child of p, and
\* when p had a child before, the call raises no error.
C17_ShowChildReplaces ==
    [][ShowChildStep
       => LET p == last'.self
              c == last'.arg IN
          /\ parent'[c] = p
          /\ child'[p] = c
          /\ child[p] # NoCtrl => last'.raised = "None"]_vars

\* The call just made is process_event on the YesNoController with an
\* event that is no answer.
NoAnswerStep ==
    /\ calls' # calls
    /\ last'.op = "process_event"
    /\ IsYesNo(last'.self)
    /\ ~(last'.event.kind = "ButtonAction" /\ last'.event.name \in {"yes", "no"})

\* C18: process_event of the YesNoController with a Message, a Command or a
\* ButtonAction of another name raises an error, calls no hook, renders
\* nothing, and changes no result and no parent or child link.
C18_UnexpectedEventRejected ==
    [][NoAnswerStep
       => (/\ last'.raised = "ValueError"
           /\ last'.hooks = << >>
           /\ last'.rendered = << >>
           /\ result' = result
           /\ parent' = parent
           /\ child' = child)]_vars

\* The YesNoController, shown as the child of its parent, was sent a
\* ButtonAction of another name, raised, and is still that parent's child.
C18_Witness ==
    /\ last.op = "process_event"
    /\ IsYesNo(last.self)
    /\ last.event = [kind |-> "ButtonAction", name |-> "back"]
    /\ last.raised = "ValueError"
    /\ last.parent # NoCtrl
    /\ child[last.parent] = last.self
    /\ result[last.self] = "None"

\* C19: close() on a controller that is not the child of its parent leaves
\* that parent's child as it is.
C19_CloseDetachesOnlyItself ==
    [][(/\ calls' # calls
        /\ last'.op = "close"
        /\ parent[last'.self] # NoCtrl
        /\ child[parent[last'.self]] # last'.self)
       => child'[parent[last'.self]] = child[parent[last'.self]]]_vars

\* C20: the links are consistent and tree-shaped: the child of p has p as
\* parent, no controller is the child of two controllers, and following
\* the child links from any controller comes to an end.
C20_LinksTreeShaped ==
    /\ \A p \in Ctrl : child[p] # NoCtrl => parent[child[p]] = p
    /\ \A p, q \in Ctrl :
           (p # q /\ child[p] # NoCtrl) => child[p] # child[q]
    /\ \A c \in Ctrl : get_current_active(child, c) # NoCtrl

\* The on_message call of task t.
AppliedOf(t) == applied[CHOOSE i \in DOMAIN applied : applied[i].task = t]

\* The message of the callback query of update u has visible text.
HasVisibleText(u) == u.message # "None" /\ u.message_text # <<"None">>

\* C14: in a callback-query turn, every editMessageText call carries the
\* text of the triggering message, an empty line and the text on_message
\* gave the edit when the triggering message has text, and the text
\* on_message gave the edit alone when it has none.
C14_EveryEditKeepsPreviousText ==
    \A t \in Tasks :
        (updates[t].kind = "callback" /\ replies[t].bound) =>
            \A k \in DOMAIN SendLog(t) :
                LET e == SendLog(t)[k]
                    new == AppliedOf(t).returned[(k + 1) \div 2].text IN
                (e.ev = "call" /\ e.op = "editMessageText") =>
                    e.text = IF HasVisibleText(updates[t])
                             THEN updates[t].message_text \o EmptyStr \o new
                             ELSE new

\* The TgOutgoingMsg has an inline keyboard / a keyboard below.
HasInline(m) == ~m.inline_keyboard.is_none /\ m.inline_keyboard.list # << >>
HasBelow(m) == ~m.keyboard_below.is_none /\ m.keyboard_below.list # << >>

\* The rows of telegram.InlineKeyboardButton made of the message's
\* InlineKeyboardButton rows (the same texts and callback data).
InlineRows(m) == IF HasInline(m) THEN m.inline_keyboard.list ELSE << >>

\* C15: the call of every outgoing message is an editMessageText on the
\* message's edit_message_with_id when that is set, and otherwise a
\* sendMessage that carries the message's inline keyboard when it has one
\* and the message's keyboard below when it has one, also when it has both.
C15_SendCarriesBothKeyboards ==
    \A t \in Tasks :
        \A k \in DOMAIN SendLog(t) :
            LET e == SendLog(t)[k]
                m == replies[t].list[(k + 1) \div 2] IN
            e.ev = "call" =>
                IF m.edit_message_with_id # NoId
                THEN /\ e.op = "editMessageText"
                     /\ e.message_id = m.edit_message_with_id
                ELSE /\ e.op = "sendMessage"
                     /\ HasInline(m) =>
                            /\ e.reply_markup.type = "InlineKeyboardMarkup"
                            /\ e.reply_markup.keyboard = InlineRows(m)
                     /\ HasBelow(m) =>
                            /\ e.reply_markup.type = "ReplyKeyboardMarkup"
                            /\ e.reply_markup.keyboard = m.keyboard_below.list

\* C16: every TgIncomingMsg given to on_message comes from a callback
\* query, with empty text and a keyboard_callback that is not None, or from
\* a text update, with a text that is not empty and keyboard_callback None.
C16_IncomingMsgShapes ==
    \A i \in DOMAIN applied :
        LET m == applied[i].message
            u == updates[applied[i].task] IN
        \/ /\ u.kind = "callback"
           /\ m.text = EmptyStr
           /\ m.keyboard_callback # "None"
        \/ /\ u.kind = "text"
           /\ m.text # EmptyStr /\ m.text # <<"None">>
           /\ m.keyboard_callback = "None"

(***************************************************************************)
(* Properties of OutMessage chains, checked under SpecChain                *)
(***************************************************************************)

\* C12: every chain followed through next is acyclic and finite (from every
\* node the walk through next comes to a node whose next is None), and
\* every concatenation has returned.
C12_ChainsAcyclic ==
    /\ \A n \in Nodes : insert_after(next, n, {n}) # NoNode
    /\ added.called => added.ret # NoNode

\* The chains that begin at nodes a, b and c are acyclic and share no node.
DisjointChains(a, b, c) ==
    /\ insert_after(next, a, {a}) # NoNode
    /\ insert_after(next, b, {b}) # NoNode
    /\ insert_after(next, c, {c}) # NoNode
    /\ Range(flatten(next, a)) \cap Range(flatten(next, b)) = {}
    /\ Range(flatten(next, a)) \cap Range(flatten(next, c)) = {}
    /\ Range(flatten(next, b)) \cap Range(flatten(next, c)) = {}

\* C13: for any three disjoint chains A, B, C, both (A+B)+C and A+(B+C)
\* return A, and the chain of A then visits the nodes of A, then those of
\* B, then those of C.
C13_ConcatenationAssociative ==
    \A a, b, c \in Nodes :
        DisjointChains(a, b, c) =>
            LET ab == add(next, a, b)
                ab_c == add(ab.next, ab.ret, c)
                bc == add(next, b, c)
                a_bc == add(bc.next, a, bc.ret)
                order == flatten(next, a) \o flatten(next, b)
                             \o flatten(next, c) IN
            /\ ab_c.ret = a
            /\ a_bc.ret = a
            /\ flatten(ab_c.next, a) = order
            /\ flatten(a_bc.next, a) = order

\* A chain of two nodes has just been made by +, and two more chains
\* disjoint from it and from each other are there to be concatenated.
C13_Witness ==
    /\ added.called /\ added.ret # NoNode
    /\ \E a, b, c \in Nodes :
           /\ DisjointChains(a, b, c)
           /\ Len(flatten(next, a)) = 2
           /\ added.self = a

====
